---- MODULE Spec2Model ----
(***************************************************************************)
(* Model of earning_calculators.py: five payout calculators (BTCU,         *)
(* BTCDown, BTCUp, BTCwithStop, BTCGrid).  Each is an object built once    *)
(* by its constructor and then queried any number of times.                *)
(*                                                                         *)
(* Numbers.  The source computes in Python floats.  The model computes in  *)
(* exact rational arithmetic: a number is a pair <<n, d>> in lowest terms  *)
(* with d > 0, and every +, -, *, / of the source is the corresponding     *)
(* rational operation, applied in the source's order.  Rounding of the     *)
(* last binary digit and the non-numeric float values (nan, inf) are below *)
(* this abstraction.  A division whose divisor is zero raises              *)
(* ZeroDivisionError, as a Python float division does.                     *)
(*                                                                         *)
(* Inputs.  Deal prices and durations are positive, terminal prices are    *)
(* zero or positive, annual rates are zero or positive.                    *)
(*                                                                         *)
(* State.  `obj` is the constructed object (its class and its fields),     *)
(* `ret` is the last call made on it together with its outcome.  The       *)
(* classes share no state (no class attributes, no globals), so one        *)
(* behaviour follows one object.  `noted` is a history variable: an        *)
(* observer may copy `ret` into it, to compare a later call with it; its   *)
(* field `later` tells that a call was made since.                         *)
(***************************************************************************)
EXTENDS Integers, FiniteSets, Sequences, TLC

VARIABLES obj, ret, noted

vars == <<obj, ret, noted>>

(***************************************************************************)
(* Bounds of the model.                                                    *)
(***************************************************************************)
\* Deal prices of BTCU, BTCDown, BTCUp, BTCwithStop range over 1..MaxPrice.
MaxPrice == 4
\* Deal prices of BTCGrid range over 1..MaxGridPrice.
MaxGridPrice == 3

\* 360-day year of the period-rate conversion.
DaysPerYear == 360

(***************************************************************************)
(* Exact rational arithmetic.                                              *)
(***************************************************************************)
Abs(x) == IF x < 0 THEN -x ELSE x

RECURSIVE GCD(_, _)
GCD(a, b) == IF b = 0 THEN a ELSE GCD(b, a % b)

\* The rational n/d (d # 0) in lowest terms with a positive denominator.
Rat(n, d) ==
    LET s == IF d < 0 THEN -1 ELSE 1
        g == GCD(Abs(n), Abs(d))
    IN  <<(s * n) \div g, (s * d) \div g>>

Float(i) == <<i, 1>>
Zero == <<0, 1>>
One == <<1, 1>>
Half == <<1, 2>>

RAdd(a, b) == Rat(a[1] * b[2] + b[1] * a[2], a[2] * b[2])
RSub(a, b) == Rat(a[1] * b[2] - b[1] * a[2], a[2] * b[2])
RMul(a, b) == Rat(a[1] * b[1], a[2] * b[2])
\* Defined for b # Zero only; every use is guarded by the raise below.
RQuot(a, b) == Rat(a[1] * b[2], a[2] * b[1])
RLt(a, b) == a[1] * b[2] < b[1] * a[2]
RLe(a, b) == a[1] * b[2] <= b[1] * a[2]
RGt(a, b) == RLt(b, a)
RGe(a, b) == RLe(b, a)

(***************************************************************************)
(* Outcomes of a call: a returned value, or a raised exception.            *)
(***************************************************************************)
NoValue == <<0, 0>>
Return(v) == [status |-> "ok", value |-> v]
Raise(e) == [status |-> e, value |-> NoValue]

\* a / b as Python evaluates it.
Div(a, b) == IF b = Zero THEN Raise("ZeroDivisionError") ELSE Return(RQuot(a, b))

(***************************************************************************)
(* Inputs.                                                                 *)
(***************************************************************************)
Prices == 1..MaxPrice
GridPrices == 1..MaxGridPrice
\* Terminal prices reach below and above every deal price.
EndPrices == {Float(p) : p \in 0..(MaxPrice + 1)}
GridEndPrices == {Float(p) : p \in 0..(MaxGridPrice + 1)}
Durations == {15, 30}
AnnualRates == {Rat(0, 1), Rat(3, 100), Rat(36, 100)}
GridAnnualRates == {Rat(3, 100), Rat(36, 100)}
HoldRates == {Rat(0, 1), Rat(1, 2), Rat(1, 1)}
StopModes == {"high", "low", "mid"}

(***************************************************************************)
(* class BTCU                                                              *)
(***************************************************************************)
\* annual rate -> rate of the holding period: float(rate) / 360. * duration
PeriodRate(anual_earning_rate, duration) ==
    RMul(RQuot(anual_earning_rate, Float(DaysPerYear)), duration)

BTCU_init(duration, current_price, hook_price, buy_price, anual_earning_rate) ==
    IF ~ (buy_price < hook_price)
    THEN [status |-> "AssertionError"]
    ELSE [status |-> "ok",
          self |-> [class |-> "BTCU",
                    current_price |-> Float(current_price),
                    duration |-> Float(duration),
                    hook_price |-> Float(hook_price),
                    buy_price |-> Float(buy_price),
                    earning_rate |-> PeriodRate(anual_earning_rate, Float(duration))]]

BTCU_get_max_annual_earning_rate(self) ==
    LET q == Div(self.earning_rate, self.duration)
    IN  IF q.status # "ok" THEN q
        ELSE Return(RMul(q.value, Float(DaysPerYear)))

\* Variant: the hook comparison written strictly (end_price < hook_price).
BTCU_end_earning_rate_strict_hook(self, end_price) ==
    IF RLt(end_price, self.hook_price)
    THEN Return(RSub(RMul(RQuot(One, self.buy_price), end_price), One))
    ELSE Return(RSub(RMul(One, RAdd(One, self.earning_rate)), One))

\* Variant: the conversion made at hook_price instead of buy_price.
BTCU_end_earning_rate_at_hook(self, end_price) ==
    IF RLe(end_price, self.hook_price)
    THEN Return(RSub(RMul(RQuot(One, self.hook_price), end_price), One))
    ELSE Return(RSub(RMul(One, RAdd(One, self.earning_rate)), One))

BTCU_end_earning_rate(self, end_price) ==
    LET init_usd_amount == One
    IN  IF RLe(end_price, self.hook_price)
        THEN LET btc_amount == Div(init_usd_amount, self.buy_price)
             IN  IF btc_amount.status # "ok" THEN btc_amount
                 ELSE Return(RSub(RMul(btc_amount.value, end_price),
                                  init_usd_amount))
        ELSE Return(RSub(RMul(init_usd_amount, RAdd(One, self.earning_rate)),
                         init_usd_amount))

(***************************************************************************)
(* class BTCDown                                                           *)
(***************************************************************************)
BTCDown_init(duration, current_price, start_increase_price, end_increase_price, low_anual_earning_rate, high_anual_earning_rate) ==
    [status |-> "ok",
     self |-> [class |-> "BTCDown",
               duration |-> Float(duration),
               current_price |-> Float(current_price),
               start_increase_price |-> Float(start_increase_price),
               end_increase_price |-> Float(end_increase_price),
               low_earning_rate |-> PeriodRate(low_anual_earning_rate, Float(duration)),
               high_earning_rate |-> PeriodRate(high_anual_earning_rate, Float(duration))]]

\* Variant: the two weights applied to the wrong rates.
Interpolate_swapped(self, lower_price_diff, higher_price_diff, total_price_diff) ==
    IF total_price_diff = Zero THEN Raise("ZeroDivisionError")
    ELSE Return(RAdd(RMul(self.high_earning_rate,
                          RQuot(lower_price_diff, total_price_diff)),
                     RMul(self.low_earning_rate,
                          RQuot(higher_price_diff, total_price_diff))))

\* The else branch of both barrier notes, lines 60-63 and 88-91.
Interpolate(self, lower_price_diff, higher_price_diff, total_price_diff) ==
    LET l_w == Div(lower_price_diff, total_price_diff)
        h_w == Div(higher_price_diff, total_price_diff)
    IN  IF l_w.status # "ok" THEN l_w
        ELSE IF h_w.status # "ok" THEN h_w
        ELSE Return(RAdd(RMul(self.high_earning_rate, h_w.value),
                         RMul(self.low_earning_rate, l_w.value)))

\* The else branch of BTCDown.end_earning_rate.
BTCDown_interpolation(self, end_price) ==
    Interpolate(self,
                RSub(end_price, self.end_increase_price),
                RSub(self.start_increase_price, end_price),
                RSub(self.start_increase_price, self.end_increase_price))

\* Variant: both saturation comparisons written strictly.
BTCDown_end_earning_rate_strict(self, end_price) ==
    IF RGt(end_price, self.start_increase_price)
    THEN Return(self.low_earning_rate)
    ELSE IF RLt(end_price, self.end_increase_price)
    THEN Return(self.high_earning_rate)
    ELSE BTCDown_interpolation(self, end_price)

BTCDown_end_earning_rate(self, end_price) ==
    IF RGe(end_price, self.start_increase_price)
    THEN Return(self.low_earning_rate)
    ELSE IF RLe(end_price, self.end_increase_price)
    THEN Return(self.high_earning_rate)
    ELSE BTCDown_interpolation(self, end_price)

(***************************************************************************)
(* class BTCUp                                                             *)
(***************************************************************************)
BTCUp_init(duration, current_price, start_increase_price, end_increase_price, low_anual_earning_rate, high_anual_earning_rate) ==
    [status |-> "ok",
     self |-> [class |-> "BTCUp",
               duration |-> Float(duration),
               current_price |-> Float(current_price),
               start_increase_price |-> Float(start_increase_price),
               end_increase_price |-> Float(end_increase_price),
               low_earning_rate |-> PeriodRate(low_anual_earning_rate, Float(duration)),
               high_earning_rate |-> PeriodRate(high_anual_earning_rate, Float(duration))]]

\* Variant: the price differences of BTCDown kept unchanged in BTCUp.
BTCUp_interpolation_copied(self, end_price) ==
    Interpolate(self,
                RSub(end_price, self.end_increase_price),
                RSub(self.start_increase_price, end_price),
                RSub(self.end_increase_price, self.start_increase_price))

\* The else branch of BTCUp.end_earning_rate.
BTCUp_interpolation(self, end_price) ==
    Interpolate(self,
                RSub(self.end_increase_price, end_price),
                RSub(end_price, self.start_increase_price),
                RSub(self.end_increase_price, self.start_increase_price))

BTCUp_end_earning_rate(self, end_price) ==
    IF RLe(end_price, self.start_increase_price)
    THEN Return(self.low_earning_rate)
    ELSE IF RGe(end_price, self.end_increase_price)
    THEN Return(self.high_earning_rate)
    ELSE BTCUp_interpolation(self, end_price)

(***************************************************************************)
(* class BTCwithStop                                                       *)
(***************************************************************************)
BTCwithStop_init(current_price, stop_price) ==
    [status |-> "ok",
     self |-> [class |-> "BTCwithStop",
               initial_price |-> Float(current_price),
               stop_price |-> Float(stop_price)]]

\* Variant: the stop price never applied.
BTCwithStop_end_earning_rate_no_floor(self, end_price) ==
    Div(RSub(end_price, self.initial_price), self.initial_price)

BTCwithStop_end_earning_rate(self, end_price) ==
    IF RGt(end_price, self.stop_price)
    THEN Div(RSub(end_price, self.initial_price), self.initial_price)
    ELSE IF RLe(end_price, self.stop_price)
    THEN Div(RSub(self.stop_price, self.initial_price), self.initial_price)
    ELSE Return(NoValue)

(***************************************************************************)
(* class BTCGrid                                                           *)
(***************************************************************************)
BTCGrid_init(current_price, low_price, high_price, grid_anual_earning_rate, duration) ==
    [status |-> "ok",
     self |-> [class |-> "BTCGrid",
               initial_price |-> Float(current_price),
               low_price |-> Float(low_price),
               high_price |-> Float(high_price),
               duration |-> Float(duration),
               grid_earning_rate |-> PeriodRate(grid_anual_earning_rate, Float(duration))]]

BTCGrid_end_grid_earning_rate(self, hold_rate) ==
    Return(RMul(self.grid_earning_rate, hold_rate))

\* Variant: the low price never applied.
BTCGrid_end_btc_earning_rate_no_low_clamp(self, end_price) ==
    IF RGt(end_price, self.high_price)
    THEN Div(RSub(self.high_price, self.initial_price), self.initial_price)
    ELSE Div(RSub(end_price, self.initial_price), self.initial_price)

BTCGrid_end_btc_earning_rate(self, end_price) ==
    IF RGt(end_price, self.high_price)
    THEN Div(RSub(self.high_price, self.initial_price), self.initial_price)
    ELSE IF RLt(end_price, self.low_price)
    THEN Div(RSub(self.low_price, self.initial_price), self.initial_price)
    ELSE Div(RSub(end_price, self.initial_price), self.initial_price)

\* return grid_earning + (btc_earning * 0.5), with exceptions passed on.
GridBlend(grid_earning, btc_earning) ==
    IF grid_earning.status # "ok" THEN grid_earning
    ELSE IF btc_earning.status # "ok" THEN btc_earning
    ELSE Return(RAdd(grid_earning.value, RMul(btc_earning.value, Half)))

\* Variant: assert hold_rate <= 1.0.
BTCGrid_end_earning_rate_hold_le(self, end_price, non_stop, hold_rate, stop_mode) ==
    IF non_stop
    THEN GridBlend(BTCGrid_end_grid_earning_rate(self, One),
                   BTCGrid_end_btc_earning_rate(self, end_price))
    ELSE IF ~ (stop_mode = "high" \/ stop_mode = "low")
    THEN Raise("AssertionError")
    ELSE IF ~ RLe(hold_rate, One)
    THEN Raise("AssertionError")
    ELSE GridBlend(BTCGrid_end_grid_earning_rate(self, hold_rate),
                   IF stop_mode = "high"
                   THEN BTCGrid_end_btc_earning_rate(self, self.high_price)
                   ELSE BTCGrid_end_btc_earning_rate(self, self.low_price))

\* Variant: the stopped-out position valued at end_price.
BTCGrid_end_earning_rate_stop_at_end_price(self, end_price, non_stop, hold_rate, stop_mode) ==
    IF non_stop
    THEN GridBlend(BTCGrid_end_grid_earning_rate(self, One),
                   BTCGrid_end_btc_earning_rate(self, end_price))
    ELSE IF ~ (stop_mode = "high" \/ stop_mode = "low")
    THEN Raise("AssertionError")
    ELSE IF ~ RLt(hold_rate, One)
    THEN Raise("AssertionError")
    ELSE GridBlend(BTCGrid_end_grid_earning_rate(self, hold_rate),
                   BTCGrid_end_btc_earning_rate(self, end_price))

BTCGrid_end_earning_rate(self, end_price, non_stop, hold_rate, stop_mode) ==
    IF non_stop
    THEN GridBlend(BTCGrid_end_grid_earning_rate(self, One),
                   BTCGrid_end_btc_earning_rate(self, end_price))
    ELSE IF ~ (stop_mode = "high" \/ stop_mode = "low")
    THEN Raise("AssertionError")
    ELSE IF ~ RLt(hold_rate, One)
    THEN Raise("AssertionError")
    ELSE GridBlend(BTCGrid_end_grid_earning_rate(self, hold_rate),
                   IF stop_mode = "high"
                   THEN BTCGrid_end_btc_earning_rate(self, self.high_price)
                   ELSE BTCGrid_end_btc_earning_rate(self, self.low_price))

(***************************************************************************)
(* The objects the constructors build.                                     *)
(***************************************************************************)
BTCUObjects ==
    {BTCU_init(d, c, h, b, r).self :
        <<d, c, h, b, r>> \in {t \in Durations \X Prices \X Prices \X Prices \X AnnualRates :
                                  BTCU_init(t[1], t[2], t[3], t[4], t[5]).status = "ok"}}

BTCDownObjects ==
    {BTCDown_init(d, c, s, e, l, h).self :
        <<d, c, s, e, l, h>> \in Durations \X {MaxPrice} \X Prices \X Prices
                                    \X AnnualRates \X AnnualRates}

BTCUpObjects ==
    {BTCUp_init(d, c, s, e, l, h).self :
        <<d, c, s, e, l, h>> \in Durations \X {MaxPrice} \X Prices \X Prices
                                    \X AnnualRates \X AnnualRates}

BTCwithStopObjects ==
    {BTCwithStop_init(c, s).self : <<c, s>> \in Prices \X Prices}

BTCGridObjects ==
    {BTCGrid_init(c, l, h, g, d).self :
        <<c, l, h, g, d>> \in GridPrices \X GridPrices \X GridPrices
                                 \X GridAnnualRates \X Durations}

(***************************************************************************)
(* Calls.  A call record holds the method, its arguments (with Python's    *)
(* defaults where the method has none) and the outcome.                    *)
(***************************************************************************)
Called(op, end_price, non_stop, hold_rate, stop_mode, out) ==
    [op |-> op, end_price |-> end_price, non_stop |-> non_stop,
     hold_rate |-> hold_rate, stop_mode |-> stop_mode,
     status |-> out.status, value |-> out.value]

NoCall == Called("none", Zero, TRUE, One, "low", Return(NoValue))

Nothing == [call |-> NoCall, later |-> FALSE]

\* The observer's note once one more call has been made.
Later(n) == IF n.call.op = "none" THEN n ELSE [n EXCEPT !.later = TRUE]

Init ==
    /\ obj \in BTCUObjects \cup BTCDownObjects \cup BTCUpObjects
                 \cup BTCwithStopObjects \cup BTCGridObjects
    /\ ret = NoCall
    /\ noted = Nothing

\* btcu.get_max_annual_earning_rate
CallBTCUGetMaxAnnualEarningRate ==
    /\ obj.class = "BTCU"
    /\ ret' = Called("BTCU.get_max_annual_earning_rate", Zero, TRUE, One, "low",
                     BTCU_get_max_annual_earning_rate(obj))
    /\ noted' = Later(noted)
    /\ UNCHANGED obj

\* btcu.end_earning_rate(end_price)
CallBTCUEndEarningRate ==
    /\ obj.class = "BTCU"
    /\ \E end_price \in EndPrices :
          ret' = Called("BTCU.end_earning_rate", end_price, TRUE, One, "low",
                        BTCU_end_earning_rate(obj, end_price))
    /\ noted' = Later(noted)
    /\ UNCHANGED obj

\* btc_down.end_earning_rate(end_price)
CallBTCDownEndEarningRate ==
    /\ obj.class = "BTCDown"
    /\ \E end_price \in EndPrices :
          ret' = Called("BTCDown.end_earning_rate", end_price, TRUE, One, "low",
                        BTCDown_end_earning_rate(obj, end_price))
    /\ noted' = Later(noted)
    /\ UNCHANGED obj

\* btc_up.end_earning_rate(end_price)
CallBTCUpEndEarningRate ==
    /\ obj.class = "BTCUp"
    /\ \E end_price \in EndPrices :
          ret' = Called("BTCUp.end_earning_rate", end_price, TRUE, One, "low",
                        BTCUp_end_earning_rate(obj, end_price))
    /\ noted' = Later(noted)
    /\ UNCHANGED obj

\* btc_with_stop.end_earning_rate(end_price)
CallBTCwithStopEndEarningRate ==
    /\ obj.class = "BTCwithStop"
    /\ \E end_price \in EndPrices :
          ret' = Called("BTCwithStop.end_earning_rate", end_price, TRUE, One, "low",
                        BTCwithStop_end_earning_rate(obj, end_price))
    /\ noted' = Later(noted)
    /\ UNCHANGED obj

\* Variant: the pro-rated grid rate stored back into the object.
CallBTCGridEndEarningRateCaching ==
    /\ obj.class = "BTCGrid"
    /\ \E end_price \in GridEndPrices, non_stop \in BOOLEAN,
          hold_rate \in HoldRates, stop_mode \in StopModes :
          /\ ret' = Called("BTCGrid.end_earning_rate", end_price, non_stop, hold_rate,
                           stop_mode,
                           BTCGrid_end_earning_rate(obj, end_price, non_stop, hold_rate,
                                                    stop_mode))
          /\ obj' = [obj EXCEPT !.grid_earning_rate =
                        IF non_stop THEN @ ELSE RMul(@, hold_rate)]
    /\ noted' = Later(noted)

\* btc_grid.end_earning_rate(end_price, non_stop, hold_rate, stop_mode)
CallBTCGridEndEarningRate ==
    /\ obj.class = "BTCGrid"
    /\ \E end_price \in GridEndPrices, non_stop \in BOOLEAN,
          hold_rate \in HoldRates, stop_mode \in StopModes :
          ret' = Called("BTCGrid.end_earning_rate", end_price, non_stop, hold_rate,
                        stop_mode,
                        BTCGrid_end_earning_rate(obj, end_price, non_stop, hold_rate,
                                                 stop_mode))
    /\ noted' = Later(noted)
    /\ UNCHANGED obj

\* btc_grid.end_grid_earning_rate(hold_rate)
CallBTCGridEndGridEarningRate ==
    /\ obj.class = "BTCGrid"
    /\ \E hold_rate \in HoldRates :
          ret' = Called("BTCGrid.end_grid_earning_rate", Zero, TRUE, hold_rate, "low",
                        BTCGrid_end_grid_earning_rate(obj, hold_rate))
    /\ noted' = Later(noted)
    /\ UNCHANGED obj

\* btc_grid.end_btc_earning_rate(end_price)
CallBTCGridEndBtcEarningRate ==
    /\ obj.class = "BTCGrid"
    /\ \E end_price \in GridEndPrices :
          ret' = Called("BTCGrid.end_btc_earning_rate", end_price, TRUE, One, "low",
                        BTCGrid_end_btc_earning_rate(obj, end_price))
    /\ noted' = Later(noted)
    /\ UNCHANGED obj

Next ==
    \/ CallBTCUGetMaxAnnualEarningRate
    \/ CallBTCUEndEarningRate
    \/ CallBTCDownEndEarningRate
    \/ CallBTCUpEndEarningRate
    \/ CallBTCwithStopEndEarningRate
    \/ CallBTCGridEndEarningRate
    \/ CallBTCGridEndGridEarningRate
    \/ CallBTCGridEndBtcEarningRate

Spec == Init /\ [][Next]_vars

(***************************************************************************)
(* The same calls, watched by an observer who may note the last call and   *)
(* its outcome at any time.  The objects are the driver's deals (lines     *)
(* 161-166) with their prices brought into the model's range, and one      *)
(* BTCU and one BTCwithStop deal.                                          *)
(***************************************************************************)
HistoryObjects ==
    {BTCDown_init(15, MaxPrice, MaxPrice, 1, Rat(3, 100), Rat(36, 100)).self,
     BTCUp_init(15, MaxPrice, 1, MaxPrice, Rat(3, 100), Rat(36, 100)).self,
     BTCGrid_init(2, 1, MaxGridPrice, Rat(36, 100), 15).self,
     BTCU_init(15, MaxPrice, MaxPrice, 1, Rat(36, 100)).self,
     BTCwithStop_init(MaxPrice, 1).self}

InitHistory ==
    /\ obj \in HistoryObjects
    /\ ret = NoCall
    /\ noted = Nothing

Note ==
    /\ ret.op # "none"
    /\ noted' = [call |-> ret, later |-> FALSE]
    /\ UNCHANGED <<obj, ret>>

NextHistory == Next \/ Note

SpecHistory == InitHistory /\ [][NextHistory]_vars

(***************************************************************************)
(* Properties.                                                             *)
(***************************************************************************)
Outcome(r) == [status |-> r.status, value |-> r.value]

\* C1: for every BTCU deal (buy_price < hook_price) and every end_price,
\* end_earning_rate returns the constant anual_earning_rate / 360 * duration
\* when end_price > hook_price, and (end_price / buy_price) - 1 when
\* end_price <= hook_price, the hook price itself included.
C1_DualCurrencyBranches ==
    (obj.class = "BTCU" /\ ret.op = "BTCU.end_earning_rate") =>
        \A d \in Durations, c \in Prices, h \in Prices, b \in Prices, r \in AnnualRates :
            (b < h /\ obj = BTCU_init(d, c, h, b, r).self) =>
                /\ ret.status = "ok"
                /\ ret.end_price[1] > h => ret.value = Rat(r[1] * d, r[2] * 360)
                /\ ret.end_price[1] <= h => ret.value = Rat(ret.end_price[1] - b, b)

\* A call exactly at the hook price has returned.
C1_Witness ==
    /\ obj.class = "BTCU"
    /\ ret.op = "BTCU.end_earning_rate"
    /\ ret.end_price = obj.hook_price
    /\ ret.status = "ok"

\* C2 as claimed: the fixed yield is returned whenever end_price is at or
\* below the hook price, and the conversion result (end_price / buy_price) - 1
\* whenever end_price is above the hook price.
C2_FixedYieldAtOrBelowHook ==
    (obj.class = "BTCU" /\ ret.op = "BTCU.end_earning_rate") =>
        /\ RLe(ret.end_price, obj.hook_price) => ret.value = obj.earning_rate
        /\ RGt(ret.end_price, obj.hook_price) =>
               ret.value = RSub(RQuot(ret.end_price, obj.buy_price), One)

\* C2 as amended: the payout is binary the other way round: the fixed yield
\* is returned whenever end_price is above the hook price, and the conversion
\* result (end_price / buy_price) - 1 whenever end_price is at or below it.
C2_FixedYieldAboveHook ==
    (obj.class = "BTCU" /\ ret.op = "BTCU.end_earning_rate") =>
        /\ ret.status = "ok"
        /\ ret.value = IF RGt(ret.end_price, obj.hook_price)
                       THEN obj.earning_rate
                       ELSE RSub(RQuot(ret.end_price, obj.buy_price), One)

\* A call above the hook price has returned the fixed yield, which differs
\* from the conversion result there.
C2_Witness ==
    /\ obj.class = "BTCU"
    /\ ret.op = "BTCU.end_earning_rate"
    /\ RGt(ret.end_price, obj.hook_price)
    /\ ret.value = obj.earning_rate
    /\ ret.value # RSub(RQuot(ret.end_price, obj.buy_price), One)

\* What C3 states of a call made at a corridor bound.
NoJumpAtBound ==
    /\ ret.end_price = obj.start_increase_price =>
           /\ (IF obj.class = "BTCDown"
               THEN BTCDown_interpolation(obj, ret.end_price)
               ELSE BTCUp_interpolation(obj, ret.end_price)) = Return(obj.low_earning_rate)
           /\ Outcome(ret) = Return(obj.low_earning_rate)
    /\ ret.end_price = obj.end_increase_price =>
           /\ (IF obj.class = "BTCDown"
               THEN BTCDown_interpolation(obj, ret.end_price)
               ELSE BTCUp_interpolation(obj, ret.end_price)) = Return(obj.high_earning_rate)
           /\ Outcome(ret) = Return(obj.high_earning_rate)

BarrierCall ==
    \/ obj.class = "BTCDown" /\ ret.op = "BTCDown.end_earning_rate"
    \/ obj.class = "BTCUp" /\ ret.op = "BTCUp.end_earning_rate"

\* The corridor as the callers are expected to pass it.
Ordered(self) ==
    \/ /\ self.class = "BTCDown"
       /\ RGt(self.start_increase_price, self.end_increase_price)
    \/ /\ self.class = "BTCUp"
       /\ RLt(self.start_increase_price, self.end_increase_price)

\* C3 as claimed: for BTCDown and BTCUp with distinct corridor bounds, the
\* interpolation formula evaluated at start_increase_price equals
\* low_earning_rate and at end_increase_price equals high_earning_rate, which
\* is what end_earning_rate returns there: no jump at either corridor bound.
C3_NoJumpDistinctBounds ==
    (BarrierCall /\ obj.start_increase_price # obj.end_increase_price) => NoJumpAtBound

\* C3 as amended: the same, for corridors whose bounds are in the expected
\* order (start_increase_price > end_increase_price for BTCDown,
\* start_increase_price < end_increase_price for BTCUp).
C3_NoJumpOrderedBounds ==
    (BarrierCall /\ Ordered(obj)) => NoJumpAtBound

\* A call at the far bound of an ordered corridor whose two rates differ has
\* returned.
C3_Witness ==
    /\ BarrierCall
    /\ Ordered(obj)
    /\ obj.low_earning_rate # obj.high_earning_rate
    /\ ret.end_price = obj.end_increase_price
    /\ ret.status = "ok"

Degenerate(self) ==
    /\ self.class \in {"BTCDown", "BTCUp"}
    /\ self.start_increase_price = self.end_increase_price

\* C4 as claimed: for a BTCDown or BTCUp deal whose corridor bounds are equal
\* there is an end_price for which end_earning_rate divides by zero.
C4_DegenerateCorridorDivides ==
    Degenerate(obj) =>
        \E end_price \in EndPrices :
            (IF obj.class = "BTCDown"
             THEN BTCDown_end_earning_rate(obj, end_price)
             ELSE BTCUp_end_earning_rate(obj, end_price)).status = "ZeroDivisionError"

\* C4 as amended: with equal corridor bounds no end_price reaches the
\* division: end_earning_rate returns for every end_price, BTCDown giving
\* low_earning_rate at or above the bound and high_earning_rate below it,
\* BTCUp giving low_earning_rate at or below the bound and high_earning_rate
\* above it.
C4_DegenerateCorridorSaturates ==
    /\ (Degenerate(obj) /\ ret.op = "BTCDown.end_earning_rate") =>
           Outcome(ret) = IF ret.end_price[1] >= obj.start_increase_price[1]
                          THEN Return(obj.low_earning_rate)
                          ELSE Return(obj.high_earning_rate)
    /\ (Degenerate(obj) /\ ret.op = "BTCUp.end_earning_rate") =>
           Outcome(ret) = IF ret.end_price[1] <= obj.start_increase_price[1]
                          THEN Return(obj.low_earning_rate)
                          ELSE Return(obj.high_earning_rate)

\* A call at the single bound of a degenerate corridor has returned.
C4_Witness ==
    /\ Degenerate(obj)
    /\ ret.op \in {"BTCDown.end_earning_rate", "BTCUp.end_earning_rate"}
    /\ ret.end_price = obj.start_increase_price
    /\ ret.status = "ok"

\* C5: end_earning_rate of a barrier note is monotonic in end_price over the
\* whole price axis: non-increasing for BTCDown with start_increase_price >
\* end_increase_price, non-decreasing for BTCUp with start_increase_price <
\* end_increase_price (low rate <= high rate in both), and every result lies
\* between the low and the high rate.
C5_BarrierMonotonic ==
    /\ (/\ obj.class = "BTCDown"
        /\ ret.op = "BTCDown.end_earning_rate"
        /\ RGt(obj.start_increase_price, obj.end_increase_price)
        /\ RLe(obj.low_earning_rate, obj.high_earning_rate)) =>
           /\ ret.status = "ok"
           /\ RLe(obj.low_earning_rate, ret.value)
           /\ RLe(ret.value, obj.high_earning_rate)
           /\ \A p1 \in EndPrices :
                  RLe(p1, ret.end_price) =>
                      /\ BTCDown_end_earning_rate(obj, p1).status = "ok"
                      /\ RGe(BTCDown_end_earning_rate(obj, p1).value, ret.value)
    /\ (/\ obj.class = "BTCUp"
        /\ ret.op = "BTCUp.end_earning_rate"
        /\ RLt(obj.start_increase_price, obj.end_increase_price)
        /\ RLe(obj.low_earning_rate, obj.high_earning_rate)) =>
           /\ ret.status = "ok"
           /\ RLe(obj.low_earning_rate, ret.value)
           /\ RLe(ret.value, obj.high_earning_rate)
           /\ \A p1 \in EndPrices :
                  RLe(p1, ret.end_price) =>
                      /\ BTCUp_end_earning_rate(obj, p1).status = "ok"
                      /\ RLe(BTCUp_end_earning_rate(obj, p1).value, ret.value)

\* A call inside the corridor of a BTCUp deal has returned a rate strictly
\* between the two plateaus.
C5_Witness ==
    /\ obj.class = "BTCUp"
    /\ ret.op = "BTCUp.end_earning_rate"
    /\ RLt(obj.start_increase_price, ret.end_price)
    /\ RLt(ret.end_price, obj.end_increase_price)
    /\ RLt(obj.low_earning_rate, ret.value)
    /\ RLt(ret.value, obj.high_earning_rate)

\* C6: for every BTCwithStop deal and every end_price the call returns a
\* value: (end_price - current_price) / current_price when end_price >
\* stop_price, (stop_price - current_price) / current_price when end_price <=
\* stop_price (equality included); the result is never below the latter.
C6_StopLossFloor ==
    (obj.class = "BTCwithStop" /\ ret.op = "BTCwithStop.end_earning_rate") =>
        LET e == ret.end_price[1]
            s == obj.stop_price[1]
            c == obj.initial_price[1]
        IN  /\ ret.status = "ok"
            /\ ret.value # NoValue
            /\ e > s => ret.value = Rat(e - c, c)
            /\ e <= s => ret.value = Rat(s - c, c)
            /\ RGe(ret.value, Rat(s - c, c))

\* A call below the stop price has returned the floor.
C6_Witness ==
    /\ obj.class = "BTCwithStop"
    /\ ret.op = "BTCwithStop.end_earning_rate"
    /\ RLt(ret.end_price, obj.stop_price)
    /\ ret.status = "ok"
    /\ ret.value = RQuot(RSub(obj.stop_price, obj.initial_price), obj.initial_price)

\* What C7 states of a call of end_btc_earning_rate (spot_component).
ClampedToBand ==
    /\ RLt(ret.end_price, obj.low_price) =>
           Outcome(ret) = BTCGrid_end_btc_earning_rate(obj, obj.low_price)
    /\ RGt(ret.end_price, obj.high_price) =>
           Outcome(ret) = BTCGrid_end_btc_earning_rate(obj, obj.high_price)

SpotCall == obj.class = "BTCGrid" /\ ret.op = "BTCGrid.end_btc_earning_rate"

\* C7 as claimed: for any BTCGrid the constructor accepts (no order between
\* low_price and high_price) every end_price below low_price gives the result
\* of end_btc_earning_rate(low_price) and every end_price above high_price
\* the result of end_btc_earning_rate(high_price).
C7_ClampedAnyBand == SpotCall => ClampedToBand

\* C7 as amended: the same for every BTCGrid with low_price <= high_price;
\* below low_price the result is (low_price - current_price) / current_price,
\* above high_price it is (high_price - current_price) / current_price.
C7_ClampedOrderedBand ==
    (SpotCall /\ RLe(obj.low_price, obj.high_price)) =>
        /\ ClampedToBand
        /\ RLt(ret.end_price, obj.low_price) =>
               Outcome(ret) = Return(Rat(obj.low_price[1] - obj.initial_price[1],
                                         obj.initial_price[1]))
        /\ RGt(ret.end_price, obj.high_price) =>
               Outcome(ret) = Return(Rat(obj.high_price[1] - obj.initial_price[1],
                                         obj.initial_price[1]))

\* A call below the low price of an ordered band has returned.
C7_Witness ==
    /\ SpotCall
    /\ RLt(obj.low_price, obj.high_price)
    /\ RLt(ret.end_price, obj.low_price)
    /\ ret.status = "ok"

GridCall == obj.class = "BTCGrid" /\ ret.op = "BTCGrid.end_earning_rate"

\* C8: BTCGrid.end_earning_rate with non_stop = False fails with an assertion
\* error whenever hold_rate >= 1.0 or stop_mode is neither 'high' nor 'low',
\* and returns a value whenever hold_rate < 1.0 and stop_mode is 'high' or
\* 'low'; with non_stop = True it never fails on their account.
C8_StopArgumentsAsserted ==
    GridCall =>
        LET bad == RGe(ret.hold_rate, One) \/ ret.stop_mode \notin {"high", "low"}
        IN  /\ (~ ret.non_stop /\ bad) =>
                   ret.status = "AssertionError" /\ ret.value = NoValue
            /\ (~ ret.non_stop /\ ~ bad) => ret.status = "ok" /\ ret.value # NoValue
            /\ ret.non_stop => ret.status = "ok" /\ ret.value # NoValue

\* A stop-loss call with hold_rate exactly 1.0 and a valid stop_mode has failed.
C8_Witness ==
    /\ GridCall
    /\ ~ ret.non_stop
    /\ ret.hold_rate = One
    /\ ret.stop_mode = "low"
    /\ ret.status = "AssertionError"

\* C9: on the stopped-out path (non_stop = False, hold_rate < 1.0, stop_mode
\* 'high' or 'low') the result is grid_earning_rate * hold_rate + 0.5 *
\* end_btc_earning_rate(boundary), boundary being high_price for 'high' and
\* low_price for 'low', the same for every end_price; on the non_stop path it
\* is grid_earning_rate * 1.0 + 0.5 * end_btc_earning_rate(end_price), the
\* same for every hold_rate and stop_mode.
C9_GridBlendValues ==
    GridCall =>
        /\ (/\ ~ ret.non_stop
            /\ RLt(ret.hold_rate, One)
            /\ ret.stop_mode \in {"high", "low"}) =>
               LET boundary == IF ret.stop_mode = "high" THEN obj.high_price
                                                          ELSE obj.low_price
               IN  /\ Outcome(ret) =
                          Return(RAdd(RMul(obj.grid_earning_rate, ret.hold_rate),
                                      RMul(Half,
                                           BTCGrid_end_btc_earning_rate(obj, boundary).value)))
                   /\ \A p \in GridEndPrices :
                          BTCGrid_end_earning_rate(obj, p, FALSE, ret.hold_rate,
                                                   ret.stop_mode) = Outcome(ret)
        /\ ret.non_stop =>
               /\ Outcome(ret) =
                      Return(RAdd(RMul(obj.grid_earning_rate, One),
                                  RMul(Half,
                                       BTCGrid_end_btc_earning_rate(obj, ret.end_price).value)))
               /\ \A h \in HoldRates, m \in StopModes :
                      BTCGrid_end_earning_rate(obj, ret.end_price, TRUE, h, m) = Outcome(ret)

\* A stopped-out call has returned, at an end_price whose own spot return
\* differs from the one at the boundary.
C9_Witness ==
    /\ GridCall
    /\ ~ ret.non_stop
    /\ ret.status = "ok"
    /\ ret.stop_mode = "high"
    /\ ret.hold_rate = Half
    /\ BTCGrid_end_btc_earning_rate(obj, ret.end_price)
           # BTCGrid_end_btc_earning_rate(obj, obj.high_price)

SameCall(a, b) ==
    /\ a.op # "none"
    /\ a.op = b.op
    /\ a.end_price = b.end_price
    /\ a.non_stop = b.non_stop
    /\ a.hold_rate = b.hold_rate
    /\ a.stop_mode = b.stop_mode

\* C10: no query, failing ones included, changes a stored field of the
\* object, and a call repeated with the same arguments at any later point of
\* any call sequence has the outcome of the earlier call.
C10_QueriesArePure ==
    [][/\ obj' = obj
       /\ SameCall(noted'.call, ret') => Outcome(noted'.call) = Outcome(ret')]_vars

\* A failing stop-loss call was noted and has been repeated later.
C10_Witness ==
    /\ noted.later
    /\ SameCall(noted.call, ret)
    /\ ret.op = "BTCGrid.end_earning_rate"
    /\ ret.status = "AssertionError"

====
